---- MODULE Spec2Model ----
(***************************************************************************)
(* A model of heroku/database.py: the Database dict subclass, its rolling  *)
(* revision log, the autofix/rollback protocol of save(), the debounced    *)
(* remote flush (_redis_save) and the get/set/pointer facade.              *)
(*                                                                         *)
(* Python objects are modelled with their identity where the code shares   *)
(* them: a namespace (the dict stored under an owner) lives in `heap` and  *)
(* the store and the revisions hold references to it, because              *)
(* `dict(self)` copies only the top-level mapping.                         *)
(***************************************************************************)
EXTENDS Integers, Sequences, FiniteSets, TLC

VARIABLES
    store,                  \* the Database itself (a dict): owner -> entry
    heap,                   \* namespace objects: ref -> (key -> value)
    _revisions,             \* self._revisions, oldest first
    _next_revision_call,    \* self._next_revision_call
    _redis,                 \* self._redis is set (a handle) or None
    _saving_task,           \* self._saving_task is set (a Future) or None
    tasks,                  \* the _redis_save coroutines that have not finished
    file,                   \* the local file config-<id>.json
    remote,                 \* the blob under the account key in the remote cache
    env,                    \* what init() finds: connection string, ping outcome
    now,                    \* time.time()
    phase,                  \* "new" after __init__, "ready" after init()
    nsnap,                  \* how many snapshots were ever appended (serial numbers)
    result                  \* what the last call returned or raised

vars == <<store, heap, _revisions, _next_revision_call, _redis, _saving_task,
          tasks, file, remote, env, now, phase, nsnap, result>>

----------------------------------------------------------------------------
(* Bounds of the model *)

MaxTime == 6
MaxTimeRev == 65
MaxRecursion == 3

(* Constants of the program *)

RevisionWindow == 3
MaxRevisions == 15
FlushDelay == 5

----------------------------------------------------------------------------
(* Python values: a type name and a number (the int itself, or the length
   of a str / list / dict; 0 for None and for a bare object()). *)

PyVal(t, n) == [t |-> t, n |-> n]
PyStr(n) == PyVal("str", n)
PyInt(n) == PyVal("int", n)
PyFloat(n) == PyVal("float", n)
PyList(n) == PyVal("list", n)
PyDict(n) == PyVal("dict", n)
PyNone == PyVal("NoneType", 0)
PyObject == PyVal("object", 0)

TypeOf(v) == v.t

\* bool(v): None is falsy, a number is falsy when 0, a container when empty
Truthy(v) ==
    CASE v.t = "NoneType" -> FALSE
      [] v.t = "object" -> TRUE
      [] OTHER -> v.n # 0

Owners == {PyStr(1)}
Keys == {PyStr(1)}
Values == {PyInt(1), PyList(0), PyObject}
Defaults == {PyNone, PyList(0)}
\* what a caller can put in place of a namespace
ScalarEntries == {PyInt(1), PyObject}

EmptyMap == [x \in {} |-> PyNone]
Put(f, k, v) == [x \in (DOMAIN f) \cup {k} |-> IF x = k THEN v ELSE f[x]]
Restrict(f, D) == [x \in (DOMAIN f) \cap D |-> f[x]]

\* a top-level entry of the store: a reference to a namespace, or any other value
NsEntry(r) == [ns |-> TRUE, ref |-> r, val |-> PyNone]
ValEntry(v) == [ns |-> FALSE, ref |-> 0, val |-> v]

\* the contents of a top-level mapping with every reference followed
Deep(db, hp) ==
    [o \in DOMAIN db |->
        IF db[o].ns THEN [ns |-> TRUE, map |-> hp[db[o].ref], val |-> PyNone]
        ELSE [ns |-> FALSE, map |-> EmptyMap, val |-> db[o].val]]

Refs(db) == {db[o].ref : o \in {x \in DOMAIN db : db[x].ns}}
NewRef(hp) == CHOOSE r \in 1..(Cardinality(DOMAIN hp) + 1) : r \notin DOMAIN hp

----------------------------------------------------------------------------
(* utils.is_serializable: representable in the wire format (JSON) *)

JSONTypes == {"str", "int", "float", "bool", "NoneType", "list", "dict", "tuple"}
JSONKeyTypes == {"str", "int", "float", "bool", "NoneType"}

is_serializable(x) == x.t \in JSONTypes

is_serializable_key(k) == k.t \in JSONKeyTypes

is_serializable_db(db, hp) ==
    \A o \in DOMAIN db :
        /\ is_serializable_key(o)
        /\ IF db[o].ns
           THEN \A k \in DOMAIN hp[db[o].ref] :
                    is_serializable_key(k) /\ is_serializable(hp[db[o].ref][k])
           ELSE is_serializable(db[o].val)

\* isinstance(key, (str, int)); bool is a subclass of int
IsStrOrInt(k) == k.t \in {"str", "int", "bool"}

----------------------------------------------------------------------------
(* Database.process_db_autofix(db): in place on db and on its namespaces *)

\* autofix without the guard of lines 161-162: it only drops
autofix_without_guard(db, hp) ==
    LET checked == {o \in DOMAIN db : IsStrOrInt(o)}
        dropped == {o \in checked : ~db[o].ns}
        fixed   == {db[o].ref : o \in {x \in checked : db[x].ns}}
    IN [ok |-> TRUE,
        db |-> Restrict(db, (DOMAIN db) \ dropped),
        hp |-> [r \in DOMAIN hp |->
                  IF r \in fixed
                  THEN Restrict(hp[r], {k \in DOMAIN hp[r] : IsStrOrInt(k)})
                  ELSE hp[r]]]

process_db_autofix(db, hp) ==
    IF ~is_serializable_db(db, hp)
    THEN [ok |-> FALSE, db |-> db, hp |-> hp]
    ELSE LET checked == {o \in DOMAIN db : IsStrOrInt(o)}
             dropped == {o \in checked : ~db[o].ns}
             fixed   == {db[o].ref : o \in {x \in checked : db[x].ns}}
         IN [ok |-> TRUE,
             db |-> Restrict(db, (DOMAIN db) \ dropped),
             hp |-> [r \in DOMAIN hp |->
                       IF r \in fixed
                       THEN Restrict(hp[r], {k \in DOMAIN hp[r] : IsStrOrInt(k)})
                       ELSE hp[r]]]

----------------------------------------------------------------------------
(* json.dumps / json.loads: a mapping's keys are written as strings, so an
   int key 1 comes back as the str "1".  PyStr(10 + n) stands for the decimal
   text of the int n, PyStr(20 + n) for the text of the float n, PyStr(30)
   for "null", PyStr(40 + n) for "true"/"false". *)

JsonKey(k) ==
    CASE k.t = "str" -> k
      [] k.t = "int" -> PyStr(10 + k.n)
      [] k.t = "float" -> PyStr(20 + k.n)
      [] k.t = "NoneType" -> PyStr(30)
      [] OTHER -> PyStr(40 + k.n)

JsonMap(m) ==
    [j \in {JsonKey(k) : k \in DOMAIN m} |->
        m[CHOOSE k \in DOMAIN m : JsonKey(k) = j]]

\* json.dumps(self): the document written for a serializable store
json_dumps(db, hp) ==
    LET d == Deep(db, hp)
    IN [j \in {JsonKey(o) : o \in DOMAIN d} |->
          LET o == CHOOSE x \in DOMAIN d : JsonKey(x) = j
          IN [ns |-> d[o].ns, map |-> JsonMap(d[o].map), val |-> d[o].val]]

\* self.update(json.loads(text)): every mapping of the document is a new dict
RECURSIVE update_loaded(_, _, _, _)
update_loaded(db, hp, doc, todo) ==
    IF todo = {} THEN [db |-> db, hp |-> hp]
    ELSE LET o == CHOOSE x \in todo : TRUE
             r == NewRef(hp)
         IN IF doc[o].ns
            THEN update_loaded(Put(db, o, NsEntry(r)), Put(hp, r, doc[o].map),
                               doc, todo \ {o})
            ELSE update_loaded(Put(db, o, ValEntry(doc[o].val)), hp, doc, todo \ {o})

\* a backend's content: nothing, text that does not parse, or a document
NoData == [exists |-> FALSE, valid |-> FALSE, doc |-> EmptyMap]
BadData == [exists |-> TRUE, valid |-> FALSE, doc |-> EmptyMap]
Data(doc) == [exists |-> TRUE, valid |-> TRUE, doc |-> doc]

Doc1 == [o \in {PyStr(1)} |->
            [ns |-> TRUE, map |-> [k \in {PyStr(1)} |-> PyInt(1)], val |-> PyNone]]

----------------------------------------------------------------------------
(* Outcomes of a call *)

\* call: the arguments, kept for a call of set; popped: how many revisions a
\* rollback took off the log
NoCall == [owner |-> PyNone, key |-> PyNone, value |-> PyNone]
Returned(v) == [kind |-> "return", what |-> "", val |-> v, call |-> NoCall, popped |-> 0]
Raised(exc) == [kind |-> "raise", what |-> exc, val |-> PyNone, call |-> NoCall, popped |-> 0]
\* no call has returned since the last step of the environment
Idle == [kind |-> "idle", what |-> "", val |-> PyNone, call |-> NoCall, popped |-> 0]
PyTrue == PyVal("bool", 1)
PyFalse == PyVal("bool", 0)

NonSerializableOwner == "RuntimeError: Non-serializable owner"
NonSerializableKey == "RuntimeError: Non-serializable key"
NonSerializableValue == "RuntimeError: Non-serializable value"
DbBroken == "RuntimeError: Can't find revision to restore broken database from; db broken."
Rewriting == "RuntimeError: Rewriting database to the last known good revision."

----------------------------------------------------------------------------
(* The part of the state save() works on *)

Cur == [db |-> store, hp |-> heap, revs |-> _revisions,
        nrc |-> _next_revision_call, st |-> _saving_task, tasks |-> tasks,
        file |-> file, nsnap |-> nsnap, res |-> result]

\* objects that nothing refers to any more are gone
Live(S) == Refs(S.db) \cup UNION {Refs(S.revs[i].db) : i \in 1..Len(S.revs)}

Commit(S) ==
    /\ store' = S.db
    /\ heap' = Restrict(S.hp, Live(S))
    /\ _revisions' = S.revs
    /\ _next_revision_call' = S.nrc
    /\ _saving_task' = S.st
    /\ tasks' = S.tasks
    /\ file' = S.file
    /\ nsnap' = S.nsnap
    /\ result' = S.res

----------------------------------------------------------------------------
(* Database.save *)

\* a recovery that examines the log oldest first, pop(0) for pop()
RECURSIVE pop_revisions_oldest(_, _)
pop_revisions_oldest(revs, hp) ==
    IF revs = <<>>
    THEN [found |-> FALSE, db |-> EmptyMap, revs |-> revs, hp |-> hp]
    ELSE LET rev == revs[1]
             rest == SubSeq(revs, 2, Len(revs))
             fix == process_db_autofix(rev.db, hp)
         IN IF fix.ok
            THEN [found |-> TRUE, db |-> fix.db, revs |-> rest, hp |-> fix.hp]
            ELSE pop_revisions_oldest(rest, hp)

\* lines 183-186: pop revisions, newest first, until one passes autofix
RECURSIVE pop_revisions(_, _)
pop_revisions(revs, hp) ==
    IF revs = <<>>
    THEN [found |-> FALSE, db |-> EmptyMap, revs |-> revs, hp |-> hp]
    ELSE LET rev == revs[Len(revs)]
             rest == SubSeq(revs, 1, Len(revs) - 1)
             fix == process_db_autofix(rev.db, hp)
         IN IF fix.ok
            THEN [found |-> TRUE, db |-> fix.db, revs |-> rest, hp |-> fix.hp]
            ELSE pop_revisions(rest, hp)

\* lines 181-192
rollback(S) ==
    LET got == pop_revisions(S.revs, S.hp)
    IN IF ~got.found
       THEN [S EXCEPT !.revs = got.revs, !.res = Raised(DbBroken)]
       ELSE IF \E o \in DOMAIN got.db : o.t # "str"
       THEN \* self.update(**rev) takes str keywords only; clear() has run
            [S EXCEPT !.db = EmptyMap, !.hp = got.hp, !.revs = got.revs,
                      !.res = Raised("TypeError: keywords must be strings")]
       ELSE [S EXCEPT !.db = got.db, !.hp = got.hp, !.revs = got.revs,
                      !.res = [Raised(Rewriting) EXCEPT
                                 !.popped = Len(S.revs) - Len(got.revs)]]

\* line 195: dict(self) copies the top-level mapping; the namespaces are shared.
\* id, at and snap record the serial number, the time and the contents at
\* snapshot time.
snapshot(S) ==
    [id |-> S.nsnap + 1, at |-> now, db |-> S.db, snap |-> Deep(S.db, S.hp)]

\* a trim that pops the newest revision, pop() for pop(0)
trim_newest(revs) ==
    IF Len(revs) > MaxRevisions THEN SubSeq(revs, 1, MaxRevisions) ELSE revs

\* lines 198-199
trim(revs) ==
    IF Len(revs) > MaxRevisions
    THEN SubSeq(revs, Len(revs) - MaxRevisions + 1, Len(revs))
    ELSE revs

\* a snapshot rule that also fires at the window's last instant, >= for >
maybe_snapshot_at_window(S) ==
    IF now >= S.nrc
    THEN [S EXCEPT !.revs = trim(Append(S.revs, snapshot(S))),
                   !.nrc = now + RevisionWindow,
                   !.nsnap = S.nsnap + 1]
    ELSE [S EXCEPT !.revs = trim(S.revs)]

\* lines 194-199
maybe_snapshot(S) ==
    IF now > S.nrc
    THEN [S EXCEPT !.revs = trim(Append(S.revs, snapshot(S))),
                   !.nrc = now + RevisionWindow,
                   !.nsnap = S.nsnap + 1]
    ELSE [S EXCEPT !.revs = trim(S.revs)]

\* a save that schedules a flush without looking at the pending marker
schedule_flush_always(S) ==
    [S EXCEPT !.st = TRUE,
              !.tasks = Append(S.tasks, [pc |-> "sleeping", wake |-> now + FlushDelay]),
              !.res = Returned(PyTrue)]

\* lines 201-204
schedule_flush(S) ==
    IF ~S.st
    THEN [S EXCEPT !.st = TRUE,
                   !.tasks = Append(S.tasks, [pc |-> "sleeping", wake |-> now + FlushDelay]),
                   !.res = Returned(PyTrue)]
    ELSE [S EXCEPT !.res = Returned(PyTrue)]

\* a file branch that lets the I/O error out
write_file_raises(S, written) ==
    IF written
    THEN [S EXCEPT !.file = Data(json_dumps(S.db, S.hp)), !.res = Returned(PyTrue)]
    ELSE [S EXCEPT !.res = Raised("OSError")]

\* lines 206-212; written says whether write_text succeeded
write_file(S, written) ==
    IF written
    THEN [S EXCEPT !.file = Data(json_dumps(S.db, S.hp)), !.res = Returned(PyTrue)]
    ELSE [S EXCEPT !.res = Returned(PyFalse)]

\* a save that writes the file whichever backend is active
Database_save_both(S, written) ==
    LET fix == process_db_autofix(S.db, S.hp)
    IN IF ~fix.ok
       THEN rollback(S)
       ELSE LET S1 == maybe_snapshot([S EXCEPT !.db = fix.db, !.hp = fix.hp])
            IN IF _redis THEN schedule_flush(write_file(S1, TRUE))
                         ELSE write_file(S1, written)

\* lines 180-212
Database_save(S, written) ==
    LET fix == process_db_autofix(S.db, S.hp)
    IN IF ~fix.ok
       THEN rollback(S)
       ELSE LET S1 == maybe_snapshot([S EXCEPT !.db = fix.db, !.hp = fix.hp])
            IN IF _redis THEN schedule_flush(S1) ELSE write_file(S1, written)

----------------------------------------------------------------------------
(* Database.set *)

\* a validation that forgets the value
set_validate_owner_key(owner, key, value) ==
    IF ~is_serializable(owner) THEN NonSerializableOwner
    ELSE IF ~is_serializable(key) THEN NonSerializableKey
    ELSE ""

\* lines 231-236: "" when the three arguments pass
set_validate(owner, key, value) ==
    IF ~is_serializable(owner) THEN NonSerializableOwner
    ELSE IF ~is_serializable(key) THEN NonSerializableKey
    ELSE IF ~is_serializable(value) THEN NonSerializableValue
    ELSE ""

\* line 238: super().setdefault(owner, {})[key] = value
set_write(S, owner, key, value) ==
    IF owner \notin DOMAIN S.db
    THEN LET r == NewRef(S.hp)
         IN [S EXCEPT !.db = Put(S.db, owner, NsEntry(r)),
                      !.hp = Put(S.hp, r, [k \in {key} |-> value])]
    ELSE [S EXCEPT !.hp[S.db[owner].ref] = Put(@, key, value)]

Database_set(S, owner, key, value, written) ==
    LET err == set_validate(owner, key, value)
    IN IF err # "" THEN [S EXCEPT !.res = Raised(err)]
       ELSE IF owner \in DOMAIN S.db /\ ~S.db[owner].ns
       THEN \* the entry under owner is no dict: item assignment fails
            [S EXCEPT !.res = Raised("TypeError: does not support item assignment")]
       ELSE Database_save(set_write(S, owner, key, value), written)

----------------------------------------------------------------------------
(* Database.get and Database.pointer *)

\* line 228: get calls self.get, which is this same method; the interpreter
\* ends the recursion at its depth limit
RECURSIVE Database_get(_, _, _, _)
Database_get(owner, key, default, depth) ==
    IF depth >= MaxRecursion
    THEN Raised("RecursionError: maximum recursion depth exceeded")
    ELSE Database_get(owner, key, default, depth + 1)

IsHashable(v) == v.t \notin {"list", "dict"}

\* lines 249-258
pointer_constructor(value) ==
    CASE value.t = "list" -> "PointerList"
      [] value.t = "dict" -> "PointerDict"
      [] IsHashable(value) -> "identity"
      [] OTHER -> "None"

TypeMismatch == "ValueError: Pointer type mismatch in database"

\* lines 248-271
Database_pointer(owner, key, default) ==
    LET value == Database_get(owner, key, default, 0)
    IN IF value.kind = "raise" THEN value
       ELSE LET current_value == Database_get(owner, key, PyNone, 0)
            IN IF current_value.kind = "raise" THEN current_value
               ELSE IF Truthy(current_value.val)
                       /\ TypeOf(current_value.val) # TypeOf(default)
               THEN Raised(TypeMismatch)
               ELSE IF pointer_constructor(value.val) = "None"
               THEN Raised("ValueError: Pointer not implemented")
               ELSE IF pointer_constructor(value.val) = "identity"
               THEN Returned(value.val)
               ELSE Returned(PyVal(pointer_constructor(value.val), 0))

----------------------------------------------------------------------------
(* Initial state: after Database.__init__ (lines 45-53), with the
   environment init() will find *)

Environments ==
    {[uri |-> FALSE, ping |-> FALSE],
     [uri |-> TRUE, ping |-> TRUE],
     [uri |-> TRUE, ping |-> FALSE]}


Init ==
    /\ store = EmptyMap
    /\ heap = EmptyMap
    /\ _revisions = <<>>
    /\ _next_revision_call = 0
    /\ _redis = FALSE
    /\ _saving_task = FALSE
    /\ tasks = <<>>
    /\ env \in Environments
    /\ file \in IF env.uri THEN {Data(Doc1)} ELSE {NoData, BadData, Data(Doc1)}
    /\ remote \in IF env.uri THEN {NoData, Data(Doc1)} ELSE {NoData}
    /\ now = 1
    /\ phase = "new"
    /\ nsnap = 0
    /\ result = Idle

----------------------------------------------------------------------------
(* Database.init: redis_init, then read *)

\* lines 83-112: the handle is assigned before the ping
redis_init == env.uri

\* lines 139-158, on the empty store init() starts from
read(S, handle) ==
    LET src == IF handle THEN remote ELSE file
        readable == IF handle THEN env.ping /\ src.exists /\ src.valid
                    ELSE src.exists /\ src.valid
    IN IF readable
       THEN LET got == update_loaded(S.db, S.hp, src.doc, DOMAIN src.doc)
            IN [S EXCEPT !.db = got.db, !.hp = got.hp, !.res = Idle]
       ELSE [S EXCEPT !.res = Idle]

InitDb ==
    /\ phase = "new"
    /\ phase' = "ready"
    /\ _redis' = redis_init
    /\ Commit(read(Cur, redis_init))
    /\ UNCHANGED <<remote, env, now>>

----------------------------------------------------------------------------
(* Calls on the initialised database *)

\* write_text can fail; with the remote backend no file is written
WriteOutcomes == IF _redis THEN {TRUE} ELSE BOOLEAN

SetCall(owner, key, value, written) ==
    /\ phase = "ready"
    /\ Commit([Database_set(Cur, owner, key, value, written)
                  EXCEPT !.res.call = [owner |-> owner, key |-> key, value |-> value]])
    /\ UNCHANGED <<_redis, remote, env, now, phase>>

Set ==
    \E owner \in Owners, key \in Keys, value \in Values, written \in WriteOutcomes :
        SetCall(owner, key, value, written)

SaveCall(written) ==
    /\ phase = "ready"
    /\ Commit(Database_save(Cur, written))
    /\ UNCHANGED <<_redis, remote, env, now, phase>>

Save == \E written \in WriteOutcomes : SaveCall(written)

GetCall(owner, key, default) ==
    /\ phase = "ready"
    /\ result' = Database_get(owner, key, default, 0)
    /\ UNCHANGED <<store, heap, _revisions, _next_revision_call, _redis,
                   _saving_task, tasks, file, remote, env, now, phase, nsnap>>

Get == \E owner \in Owners, key \in Keys, default \in Defaults : GetCall(owner, key, default)

PointerCall(owner, key, default) ==
    /\ phase = "ready"
    /\ result' = Database_pointer(owner, key, default)
    /\ UNCHANGED <<store, heap, _revisions, _next_revision_call, _redis,
                   _saving_task, tasks, file, remote, env, now, phase, nsnap>>

Pointer ==
    \E owner \in Owners, key \in Keys, default \in Defaults : PointerCall(owner, key, default)

----------------------------------------------------------------------------
(* Writes through the dict interface the Database inherits: a caller (or a
   pointer) holding the store or one of its namespaces assigns into it
   without going through set() *)

\* self[owner] = value
SetItem ==
    \E owner \in Owners, value \in ScalarEntries :
        /\ phase = "ready"
        /\ Commit([Cur EXCEPT !.db = Put(store, owner, ValEntry(value)),
                              !.res = Idle])
        /\ UNCHANGED <<_redis, remote, env, now, phase>>

\* self[owner][key] = value
NsSetItem ==
    \E owner \in Owners, key \in Keys, value \in Values :
        /\ phase = "ready"
        /\ owner \in DOMAIN store
        /\ store[owner].ns
        /\ Commit([Cur EXCEPT !.hp[store[owner].ref] = Put(@, key, value),
                              !.res = Idle])
        /\ UNCHANGED <<_redis, remote, env, now, phase>>

----------------------------------------------------------------------------
(* The _redis_save coroutine, lines 73-80, and the clock *)

Without(seq, i) == SubSeq(seq, 1, i - 1) \o SubSeq(seq, i + 1, Len(seq))

\* lines 76-78: the sleep is over; _redis_save_sync serialises and writes.
\* A failure ends the coroutine before line 79.
FlushWriteCall(delivered) ==
    \E i \in 1..Len(tasks) :
        /\ tasks[i].pc = "sleeping"
        /\ now >= tasks[i].wake
        /\ IF delivered /\ env.ping /\ is_serializable_db(store, heap)
           THEN /\ remote' = Data(json_dumps(store, heap))
                /\ tasks' = [tasks EXCEPT ![i].pc = "published"]
           ELSE /\ remote' = remote
                /\ tasks' = Without(tasks, i)
        /\ result' = Idle
        /\ UNCHANGED <<store, heap, _revisions, _next_revision_call, _redis,
                       _saving_task, file, env, now, phase, nsnap>>

FlushWrite == \E delivered \in BOOLEAN : FlushWriteCall(delivered)

\* lines 79-80
FlushClear ==
    \E i \in 1..Len(tasks) :
        /\ tasks[i].pc = "published"
        /\ _saving_task' = FALSE
        /\ tasks' = Without(tasks, i)
        /\ result' = Idle
        /\ UNCHANGED <<store, heap, _revisions, _next_revision_call, _redis,
                       file, remote, env, now, phase, nsnap>>

TickBy(d, max) ==
    /\ now + d <= max
    /\ now' = now + d
    /\ result' = Idle
    /\ UNCHANGED <<store, heap, _revisions, _next_revision_call, _redis,
                   _saving_task, tasks, file, remote, env, phase, nsnap>>

Tick == TickBy(1, MaxTime)

\* a clock that only shows instants more than one revision window apart, and
\* moves on once a save has taken the instant's snapshot
TickRev ==
    /\ now < _next_revision_call
    /\ TickBy(RevisionWindow + 1, MaxTimeRev)

----------------------------------------------------------------------------
Next ==
    \/ InitDb
    \/ Set
    \/ Save
    \/ Get
    \/ Pointer
    \/ SetItem
    \/ NsSetItem
    \/ FlushWrite
    \/ FlushClear
    \/ Tick

Spec == Init /\ [][Next]_vars

----------------------------------------------------------------------------
(* The revision log over many snapshots: the file backend, one coordinate,
   one value, and saves more than a revision window apart *)

InitRev ==
    /\ Init
    /\ ~env.uri
    /\ file = NoData

SetRev == \E written \in WriteOutcomes : SetCall(PyStr(1), PyStr(1), PyInt(1), written)

NextRev ==
    \/ InitDb
    \/ SetRev
    \/ Save
    \/ TickRev

SpecRev == InitRev /\ [][NextRev]_vars

----------------------------------------------------------------------------
(* Owners and keys of every type set() lets through: the file backend, one
   value, no write through the dict interface *)

OwnersAnyType == {PyStr(1), PyFloat(1)}
KeysAnyType == {PyStr(1), PyFloat(1)}

SetAnyType ==
    \E owner \in OwnersAnyType, key \in KeysAnyType, written \in WriteOutcomes :
        SetCall(owner, key, PyInt(1), written)

NextKeys ==
    \/ InitDb
    \/ SetAnyType
    \/ Save
    \/ Tick

SpecKeys == InitRev /\ [][NextKeys]_vars

----------------------------------------------------------------------------
(* The remote backend without failures: the server answers, every write is
   delivered, and the store is changed through set and save only *)

InitFlush ==
    /\ Init
    /\ env.uri
    /\ env.ping

FlushDelivered == FlushWriteCall(TRUE)

NextFlush ==
    \/ InitDb
    \/ Set
    \/ Save
    \/ FlushDelivered
    \/ FlushClear
    \/ Tick

SpecFlush == InitFlush /\ [][NextFlush]_vars

----------------------------------------------------------------------------
(* Properties *)

Present(owner, key) ==
    /\ owner \in DOMAIN store
    /\ store[owner].ns
    /\ key \in DOMAIN heap[store[owner].ref]

Stored(owner, key) == heap[store[owner].ref][key]

ValidationErrors == {NonSerializableOwner, NonSerializableKey, NonSerializableValue}

\* C1: a get that follows a set(owner, key, value) that did not raise, with
\* the same owner and key, returns value.
C1_SetThenGet ==
    [][\A owner \in Owners, key \in Keys, value \in Values, default \in Defaults :
          (/\ result.kind = "return"
           /\ result.call = [owner |-> owner, key |-> key, value |-> value]
           /\ GetCall(owner, key, default))
          => result' = Returned(value)]_vars

\* C2: set with a non-serializable value raises a validation error and changes
\* neither the store, nor its namespaces, nor the revision log, nor the
\* pending-flush marker and its tasks, nor the file, nor the remote blob.
C2_SetRejectsUnchanged ==
    [][\A value \in {v \in Values : ~is_serializable(v)} :
       \A owner \in Owners, key \in Keys, written \in BOOLEAN :
          SetCall(owner, key, value, written)
          => /\ result'.kind = "raise"
             /\ result'.what \in ValidationErrors
             /\ UNCHANGED <<store, heap, _revisions, _next_revision_call,
                            _saving_task, tasks, file, remote>>]_vars

C2_Witness ==
    /\ result.what = NonSerializableValue
    /\ result.call.value = PyObject
    /\ store # EmptyMap

\* the revisions that pass the serialization guard as they are now
CleanRevisions == {i \in 1..Len(_revisions) : is_serializable_db(_revisions[i].db, heap)}

\* C3: a save on a store that fails the serialization guard, with a clean
\* revision in the log, leaves the store equal to the contents that revision
\* had when it was snapshotted.
C3_RestoresSnapshot ==
    [][\A written \in BOOLEAN :
          (/\ ~is_serializable_db(store, heap)
           /\ CleanRevisions # {}
           /\ SaveCall(written))
          => LET i == CHOOSE j \in CleanRevisions : \A k \in CleanRevisions : k <= j
             IN Deep(store', heap') = _revisions[i].snap]_vars

\* C4: every revision in the log has the contents the store had when the
\* revision was appended.
C4_RevisionsImmutable ==
    \A i \in 1..Len(_revisions) :
        Deep(_revisions[i].db, heap) = _revisions[i].snap

\* C5: a save on a store that fails the serialization guard, when no revision
\* in the log passes it (or the log is empty), raises the unrecoverable error,
\* writes no file and schedules no flush.
C5_UnrecoverablePersistsNothing ==
    [][\A written \in BOOLEAN :
          (/\ ~is_serializable_db(store, heap)
           /\ CleanRevisions = {}
           /\ SaveCall(written))
          => /\ result' = Raised(DbBroken)
             /\ UNCHANGED <<file, remote, _saving_task, tasks>>]_vars

C5_Witness ==
    /\ result = Raised(DbBroken)
    /\ ~is_serializable_db(store, heap)
    /\ nsnap > 0

\* C6: at most one deferred flush exists at any moment, and no step taken
\* while one is pending (a save in particular) adds another.
C6_OneFlushPending ==
    /\ [](Len(tasks) <= 1)
    /\ [][Len(tasks) >= 1 => Len(tasks') <= Len(tasks)]_vars

\* a save has just returned true at `now` while the flush scheduled at an
\* earlier instant is still sleeping
C6_Witness ==
    /\ _redis
    /\ result = Returned(PyTrue)
    /\ Len(tasks) = 1
    /\ tasks[1].pc = "sleeping"
    /\ tasks[1].wake < now + FlushDelay

\* C7: the log never holds more than 15 revisions, and it holds the most
\* recently appended ones, oldest first (serial numbers consecutive, ending at
\* the last snapshot taken).
C7_BoundedFifo ==
    /\ Len(_revisions) <= MaxRevisions
    /\ \A i \in 1..Len(_revisions) :
          _revisions[i].id = nsnap - Len(_revisions) + i

C7_Witness ==
    /\ Len(_revisions) = MaxRevisions
    /\ nsnap > MaxRevisions
    /\ _revisions[1].id = nsnap - MaxRevisions + 1

\* C8: after init() with a failing connectivity check the remote backend is
\* not active.
C8_PingFailureFallsBack ==
    (phase = "ready" /\ env.uri /\ ~env.ping) => ~_redis

\* C9: pointer over a stored value whose type differs from the default's type
\* raises the type-mismatch error.
C9_PointerTypeMismatch ==
    [][\A owner \in Owners, key \in Keys, default \in Defaults :
          (/\ PointerCall(owner, key, default)
           /\ Present(owner, key)
           /\ TypeOf(Stored(owner, key)) # TypeOf(default))
          => result' = Raised(TypeMismatch)]_vars

\* C10: get returns the default when the owner or the key is absent, and
\* changes nothing of the store, the revision log and the pending-flush marker.
C10_GetPureRead ==
    [][\A owner \in Owners, key \in Keys, default \in Defaults :
          GetCall(owner, key, default)
          => /\ ~Present(owner, key) => result' = Returned(default)
             /\ UNCHANGED <<store, heap, _revisions, _saving_task, tasks>>]_vars

\* the revision log of the next state extends the current one
LogKept == /\ Len(_revisions') >= Len(_revisions)
           /\ SubSeq(_revisions', 1, Len(_revisions)) = _revisions

\* C11: with the file backend, a save whose write fails returns false, and
\* the store (as autofix left it) and the revision log (with the snapshot the
\* save may have appended) are kept; a set whose write fails keeps its value.
C11_FailedWriteKeepsState ==
    [][/\ (/\ ~_redis
           /\ is_serializable_db(store, heap)
           /\ SaveCall(FALSE))
          => /\ result' = Returned(PyFalse)
             /\ Deep(store', heap')
                  = Deep(process_db_autofix(store, heap).db,
                         process_db_autofix(store, heap).hp)
             /\ LogKept
       /\ \A owner \in Owners, key \in Keys, value \in Values :
             (/\ ~_redis
              /\ result'.kind = "return"
              /\ SetCall(owner, key, value, FALSE))
             => /\ result'.val = PyFalse
                /\ Present(owner, key)'
                /\ Stored(owner, key)' = value
                /\ LogKept]_vars

C11_Witness ==
    /\ ~_redis
    /\ result.kind = "return"
    /\ result.val = PyFalse
    /\ result.call.value = PyList(0)
    /\ Len(_revisions) >= 1
    /\ file # Data(json_dumps(store, heap))

\* every owner but o holds a namespace with str/int keys and serializable values
CleanBut(o) ==
    \A p \in (DOMAIN store) \ {o} :
        /\ store[p].ns
        /\ \A k \in DOMAIN heap[store[p].ref] :
              IsStrOrInt(k) /\ is_serializable(heap[store[p].ref][k])

\* C12: on a store whose only defect is an owner holding a non-serializable
\* value that is no mapping, autofix reports success and has dropped that owner.
C12_AutofixDropsBadOwner ==
    \A o \in DOMAIN store :
        (~store[o].ns /\ ~is_serializable(store[o].val) /\ CleanBut(o))
        => /\ process_db_autofix(store, heap).ok
           /\ o \notin DOMAIN process_db_autofix(store, heap).db

\* the data-model invariant of the store
DataModelOK(db, hp) ==
    /\ \A o \in DOMAIN db :
          /\ db[o].ns
          /\ \A k \in DOMAIN hp[db[o].ref] : IsStrOrInt(k)
    /\ is_serializable_db(db, hp)

C14_NewestCleanFirst ==
    [][\A written \in BOOLEAN :
          (/\ ~is_serializable_db(store, heap)
           /\ CleanRevisions # {}
           /\ SaveCall(written))
          => LET i == CHOOSE j \in CleanRevisions : \A k \in CleanRevisions : k <= j
             IN /\ result'.what = Rewriting
                /\ Deep(store', heap') = Deep(_revisions[i].db, heap)
                /\ _revisions' = SubSeq(_revisions, 1, i - 1)
                /\ result'.popped = Len(_revisions) - i + 1]_vars

\* a rollback has skipped a failing revision and restored the one below it
C14_Witness ==
    /\ result.what = Rewriting
    /\ result.popped = 2

\* a save, alone or inside set, is the step taken
SaveRuns ==
    \/ \E written \in BOOLEAN : SaveCall(written)
    \/ \E owner \in Owners, key \in Keys, value \in Values, written \in BOOLEAN :
          SetCall(owner, key, value, written)

\* C15: consecutive revisions of the log were taken more than RevisionWindow
\* apart; a save that returns appends a snapshot taken now and moves the
\* next-allowed timestamp to now + RevisionWindow when now exceeds that
\* timestamp, and leaves the log and the timestamp alone when it does not.
C15_OneSnapshotPerWindow ==
    /\ [](\A i \in 1..(Len(_revisions) - 1) :
             _revisions[i + 1].at - _revisions[i].at > RevisionWindow)
    /\ [][(result'.kind = "return" /\ SaveRuns)
          => IF now > _next_revision_call
             THEN /\ Len(_revisions') = Len(_revisions) + 1
                  /\ SubSeq(_revisions', 1, Len(_revisions)) = _revisions
                  /\ _revisions'[Len(_revisions')].at = now
                  /\ _next_revision_call' = now + RevisionWindow
             ELSE /\ _revisions' = _revisions
                  /\ _next_revision_call' = _next_revision_call]_vars

\* two revisions in the log, and a save after the second returned without a third
C15_Witness ==
    /\ Len(_revisions) = 2
    /\ result.kind = "return"
    /\ _revisions[2].at < now
    /\ now <= _next_revision_call

\* C16: after init the active backend never changes; a save (alone or inside
\* set) with the remote backend active leaves the local file alone, and a save
\* with the file backend active schedules no flush and leaves the remote blob
\* alone.
C16_OneBackend ==
    [][phase = "ready"
       => /\ _redis' = _redis
          /\ \/ IF _redis
                THEN file' = file
                ELSE /\ tasks' = tasks
                     /\ _saving_task' = _saving_task
                     /\ remote' = remote
             \/ ~SaveRuns]_vars

\* a save went to the remote backend: a flush is pending for a store the local
\* file does not hold
C16_Witness ==
    /\ _redis
    /\ result = Returned(PyTrue)
    /\ _saving_task
    /\ Len(tasks) >= 1
    /\ store # EmptyMap
    /\ file # Data(json_dumps(store, heap))

\* C17: while the pending-flush marker is set, a scheduled flush is still
\* running that will clear it.
C17_MarkerHasLiveFlush ==
    _saving_task => Len(tasks) >= 1

\* C18: with the remote backend and no write failure, once a save has been made
\* and no flush is pending or running, the remote blob is the serialised store.
C18_FlushedStoreIsRemote ==
    (/\ phase = "ready"
     /\ _redis
     /\ nsnap > 0
     /\ ~_saving_task
     /\ tasks = <<>>)
    => remote = Data(json_dumps(store, heap))

\* C20: in the state a save recovered by rollback in, the revision log holds
\* a revision with the restored contents.
C20_RestoredRevisionKept ==
    result.what = Rewriting
    => \E i \in 1..Len(_revisions) :
          Deep(_revisions[i].db, heap) = Deep(store, heap)

====
